---- MODULE Spec2Model ----
(***************************************************************************)
(* go-bloom: a partitioned Bloom filter (BF) over k storage filters, each  *)
(* backed by an in-process bitset or by one Redis key.                     *)
(*                                                                         *)
(* Sources: src/unnamed/part_000 lines 1-175 (type BF, filter, NewBitset,  *)
(* NewRedis, filterSetup, Append, Save, Exists, Exist, Load, Add,          *)
(* hashValue, hashedValue) and src/redis.go (RedisStorage).  Lines 177-284  *)
(* of part_000 hold an earlier RedisStorage whose constructor does not fit *)
(* the call NewRedis makes; src/redis.go is the one modelled.  The bitset  *)
(* storage (NewBitsetStorage) is not among the sources; it is modelled     *)
(* from the specification's description of it.                             *)
(*                                                                         *)
(* uint is taken as 64 bits wide (amd64/arm64): a, b < 2^32 and a small    *)
(* multiplier never wrap, so (a + b*multiplier) % size is the mathematical *)
(* value.  TLC's integers are 32 bits wide, so the digest is kept as its   *)
(* eight big-endian bytes and reduced modulo size byte by byte.            *)
(***************************************************************************)
EXTENDS Integers, Sequences, FiniteSets, TLC

(***************************************************************************)
(* Bounds of the model and the inputs the callers draw from.               *)
(***************************************************************************)
\* Longest pending queue a storage is driven to (the code never bounds it).
MaxQueue == 2
\* Longest argument list given to the variadic Add, Exist and Load.
MaxBatch == 2

\* The values callers insert and query: "c" and "ab" as byte strings.
Values == {<<99>>, <<97, 98>>}
\* (size, hashIter) pairs a behaviour is run with; 5/2 exercises the ceiling.
Configs == {[size |-> 5, hashIter |-> 2], [size |-> 4, hashIter |-> 2]}
\* expiredAfterSeconds given to NewRedis.
Expiries == {0, 60}
\* The base key given to NewRedis.
BaseKey == "x"
\* MaxActive of the pools that have a limit (redis.Pool with Wait set).
PoolLimits == {1, 2}

Callers == {1, 2}
Insts == {1, 2}

Nil == "nil"
IOError == "io error"

RECURSIVE SeqsUpTo(_, _)
\* All sequences over S of length at most n.
SeqsUpTo(S, n) ==
    IF n = 0 THEN {<<>>}
    ELSE LET shorter == SeqsUpTo(S, n - 1)
         IN  shorter \cup {Append(s, x) : s \in {t \in shorter : Len(t) = n - 1}, x \in S}

(***************************************************************************)
(* hash/fnv New64 (FNV-1, 64 bit): h := offset64; for each byte c:         *)
(* h *= prime64; h ^= c.  Sum(nil) is h as eight big-endian bytes.         *)
(***************************************************************************)
\* offset64 = 14695981039346656037 = 0xcbf29ce484222325, big-endian bytes.
Offset64 == <<203, 242, 156, 228, 132, 34, 35, 37>>
\* prime64 = 1099511628211 = 2^40 + PrimeLow.
PrimeLow == 435
\* 2^40 is a shift by PrimeShift bytes.
PrimeShift == 5

RECURSIVE XorBits(_, _, _)
\* x XOR y on the low n bits.
XorBits(x, y, n) ==
    IF n = 0 THEN 0
    ELSE ((x + y) % 2) + (2 * XorBits(x \div 2, y \div 2, n - 1))

\* Byte j (0 = least significant) of the big-endian 8-byte word h.
Limb(h, j) == h[8 - j]

RECURSIVE MulPrimeLimbs(_, _, _)
\* Bytes j..7 (least significant first) of h * prime64 mod 2^64.
MulPrimeLimbs(h, j, carry) ==
    IF j > 7 THEN <<>>
    ELSE LET t == (Limb(h, j) * PrimeLow)
                  + (IF j >= PrimeShift THEN Limb(h, j - PrimeShift) ELSE 0)
                  + carry
         IN  <<t % 256>> \o MulPrimeLimbs(h, j + 1, t \div 256)

\* h * prime64 mod 2^64, big-endian bytes.
MulPrime(h) ==
    LET le == MulPrimeLimbs(h, 0, 0)
    IN  <<le[8], le[7], le[6], le[5], le[4], le[3], le[2], le[1]>>

RECURSIVE Fnv64(_, _)
\* hasher.Write(data) from state h.
Fnv64(h, data) ==
    IF data = <<>> THEN h
    ELSE LET m == MulPrime(h)
         IN  Fnv64([m EXCEPT ![8] = XorBits(m[8], Head(data), 8)], Tail(data))

\* The state of a hasher created or reset and then given the bytes of data.
Digest[data \in Seq(0..255)] == Fnv64(Offset64, data)

\* binary.BigEndian.Uint32 of four bytes, reduced modulo m.
Uint32Mod(bytes, m) ==
    LET r1 == bytes[1] % m
        r2 == ((r1 * 256) + bytes[2]) % m
        r3 == ((r2 * 256) + bytes[3]) % m
    IN  ((r3 * 256) + bytes[4]) % m

\* The hash.Hash64 of fnv.New64(), held as the bytes written to it since it
\* was created or last reset; its state is the FNV-1 of them.
NewHasher == <<>>

\* A Reset that leaves the state alone.
ResetKeeps(hasher) == hasher

\* hasher.Reset()
Reset(hasher) == <<>>

\* hasher.Write(data)
Write(hasher, data) == hasher \o data

\* hasher.Sum(nil)
Sum(hasher) == Digest[hasher]

\* a = sum[0:4], b = sum[4:8], with the state the hasher is left in.
Halves(sum, hasher) ==
    [a |-> <<sum[1], sum[2], sum[3], sum[4]>>,
     b |-> <<sum[5], sum[6], sum[7], sum[8]>>,
     hasher |-> hasher]

\* sum := hasher.Sum(nil) and the halves of it.  (A set of one element binds
\* a name to a value, so that the value is computed once.)
Hashed(hasher) == CHOOSE r \in {Halves(sum, hasher) : sum \in {Sum(hasher)}} : TRUE

\* filter.hashedValue: Reset, Write, Sum; a and b of the sum.
hashedValue(f, value) == Hashed(Write(Reset(f.hasher), value))

\* filter.hashValue: the same computation on a []byte.
hashValue(f, value) == Hashed(Write(Reset(f.hasher), value))

\* (a + b*f.multiplier) % f.size
BitOf(f, h) ==
    (Uint32Mod(h.a, f.size) + (Uint32Mod(h.b, f.size) * f.multiplier)) % f.size

(***************************************************************************)
(* filterSetup                                                             *)
(***************************************************************************)
\* uint(math.Ceil(float64(size) / float64(hashIter)))
PartitionSize(size, hashIter) == (size + hashIter - 1) \div hashIter

NoStorage == [kind |-> Nil]

filterSetup(size, hashIter) ==
    [k \in 1..hashIter |->
        [size |-> PartitionSize(size, hashIter),
         storage |-> NoStorage,
         hasher |-> NewHasher,
         multiplier |-> k]]

\* A key numbered from the loop index instead of the multiplier.
KeyOfIndex(key, multiplier) == <<key, multiplier - 1>>

\* fmt.Sprintf("%s.%d", key, filter.multiplier)
KeyOf(key, multiplier) == <<key, multiplier>>

(***************************************************************************)
(* The Redis server, as far as the commands the code sends reach it.  A    *)
(* database maps each existing key to the set of its one-bits.  No action  *)
(* lets time pass, so a positive time to live is not part of the state.    *)
(***************************************************************************)

SetBitCmd(key, bit, val) == [cmd |-> "SETBIT", key |-> key, bit |-> bit, val |-> val]
ExpireCmd(key, secs) == [cmd |-> "EXPIRE", key |-> key, bit |-> 0, val |-> secs]
ExistsCmd(key) == [cmd |-> "EXISTS", key |-> key, bit |-> 0, val |-> 0]

\* An existence check that never finds the key.
KeyNeverExists(db, key) == FALSE

\* EXISTS key
KeyExists(db, key) == key \in DOMAIN db

\* GETBIT key bit: 0 for a missing key or an unset bit.
GetBit(db, key, bit) == IF key \in DOMAIN db /\ bit \in db[key] THEN 1 ELSE 0

\* SETBIT key bit val: creates the key when it is missing.
SetBit(db, key, bit, val) ==
    LET old == IF key \in DOMAIN db THEN db[key] ELSE {}
        new == IF val = 1 THEN old \cup {bit} ELSE old \ {bit}
    IN  [k \in DOMAIN db \cup {key} |-> IF k = key THEN new ELSE db[k]]

\* EXPIRE key secs: a non-positive time to live deletes the key at once.
Expire(db, key, secs) ==
    IF key \notin DOMAIN db THEN db
    ELSE IF secs <= 0 THEN [k \in DOMAIN db \ {key} |-> db[k]]
    ELSE db

Execute(db, c) ==
    IF c.cmd = "SETBIT" THEN SetBit(db, c.key, c.bit, c.val)
    ELSE Expire(db, c.key, c.val)

RECURSIVE Pipeline(_, _, _)
\* The first n commands of a pipelined batch, executed in order.
Pipeline(db, cmds, n) ==
    IF n = 0 THEN db
    ELSE Execute(Pipeline(db, cmds, n - 1), cmds[n])

(***************************************************************************)
(* RedisStorage (src/redis.go)                                             *)
(***************************************************************************)
\* store := RedisStorage{pool, key, size, make([]uint, 0)}
RedisStorage(key, size) == [kind |-> "redis", key |-> key, size |-> size, queue |-> <<>>]

\* init: SETBIT key i 0 for every i < size, then EXPIRE, in one pipeline.
InitCmds(s, expiredAfterSeconds) ==
    [i \in 1..s.size |-> SetBitCmd(s.key, i - 1, 0)]
        \o <<ExpireCmd(s.key, expiredAfterSeconds)>>

\* An Append that starts the queue over.
RedisAppendReplace(s, bit) == [s EXCEPT !.queue = <<bit>>]

\* RedisStorage.Append
RedisAppend(s, bit) == [s EXCEPT !.queue = Append(@, bit)]

\* RedisStorage.Save: the early return on an empty queue.
SaveSkips(s) == Len(s.queue) <= 0

\* A Save that sends the loop index as the bit value.
SaveCmdsIndexAsValue(s) ==
    [n \in 1..Len(s.queue) |-> SetBitCmd(s.key, s.queue[n], IF n = 1 THEN 0 ELSE 1)]

\* A Save whose loop starts one element late.
SaveCmdsSkipFirst(s) ==
    [n \in 1..(Len(s.queue) - 1) |-> SetBitCmd(s.key, s.queue[n + 1], 1)]

\* RedisStorage.Save: one SETBIT key bit 1 for every queued bit.
SaveCmds(s) == [n \in 1..Len(s.queue) |-> SetBitCmd(s.key, s.queue[n], 1)]

\* RedisStorage.Save: the queue the storage is left with.
QueueAfterSave(s) == s.queue

\* An Exists that reports a failed GETBIT as an unset bit.
RedisExistsNoError(db, s, bit, ok) ==
    [ret |-> ok /\ GetBit(db, s.key, bit) = 1, err |-> Nil]

\* RedisStorage.Exists: (bitValue == 1, nil), or (false, err) when GETBIT fails.
RedisExists(db, s, bit, ok) ==
    IF ok THEN [ret |-> GetBit(db, s.key, bit) = 1, err |-> Nil]
    ELSE [ret |-> FALSE, err |-> IOError]

(***************************************************************************)
(* BitsetStorage: a fixed-size in-memory bit vector; Append sets the bit,  *)
(* Save does nothing, Exists reads the bit and cannot fail.                *)
(***************************************************************************)
BitsetStorage(size) == [kind |-> "bitset", size |-> size, bits |-> {}]

BitsetAppend(s, bit) == [s EXCEPT !.bits = @ \cup {bit}]

BitsetExists(s, bit) == [ret |-> bit \in s.bits, err |-> Nil]

(***************************************************************************)
(* The storage interface, dispatched on the dynamic type.                  *)
(***************************************************************************)
StorageAppend(s, bit) ==
    IF s.kind = "redis" THEN RedisAppend(s, bit) ELSE BitsetAppend(s, bit)

StorageExists(db, s, bit, ok) ==
    IF s.kind = "redis" THEN RedisExists(db, s, bit, ok) ELSE BitsetExists(s, bit)

(***************************************************************************)
(* BF (src/unnamed/part_000)                                               *)
(***************************************************************************)
\* The filters after the hash object they all point to has come to a new state.
Rehashed(filters, hasher) ==
    [j \in DOMAIN filters |-> [filters[j] EXCEPT !.hasher = hasher]]

\* One iteration of the loop of BF.Append: filter j hashes the value and
\* appends its bit.
AppendStep(filters, value, j) ==
    CHOOSE g \in {[Rehashed(filters, h.hasher) EXCEPT
                      ![j].storage = StorageAppend(@, BitOf(filters[j], h))] :
                  h \in {hashValue(filters[j], value)}} :
        TRUE

RECURSIVE AppendLoop(_, _, _)
\* The loop of BF.Append from filter j on.  (The one-element sets bind a
\* loop's state to its value, so that it is computed once.)
AppendLoop(filters, value, j) ==
    IF j > Len(filters) THEN filters
    ELSE CHOOSE r \in {AppendLoop(g, value, j + 1) : g \in {AppendStep(filters, value, j)}} :
             TRUE

\* BF.Append: every filter appends its bit of the value.
BFAppend(filters, value) == AppendLoop(filters, value, 1)

\* One iteration of the inner loop of BF.Add.
AddStep(filters, value, j) ==
    CHOOSE g \in {[Rehashed(filters, h.hasher) EXCEPT
                      ![j].storage = StorageAppend(@, BitOf(filters[j], h))] :
                  h \in {hashedValue(filters[j], value)}} :
        TRUE

RECURSIVE AddLoop(_, _, _)
\* The inner loop of BF.Add from filter j on.
AddLoop(filters, value, j) ==
    IF j > Len(filters) THEN filters
    ELSE CHOOSE r \in {AddLoop(g, value, j + 1) : g \in {AddStep(filters, value, j)}} :
             TRUE

RECURSIVE BFAdd(_, _)
\* BF.Add: for each value, every filter appends its bit.
BFAdd(filters, values) ==
    IF values = <<>> THEN filters
    ELSE CHOOSE r \in {BFAdd(g, Tail(values)) : g \in {AddLoop(filters, Head(values), 1)}} :
             TRUE

\* The state of the hash object of the filters.
HasherOf(filters) == filters[1].hasher

RECURSIVE ExistLoop(_, _, _, _, _, _, _)
\* The loops of BF.Exist from value index, filter j on; n counts the storage
\* queries made so far.
ExistLoop(db, filters, values, fail, index, j, acc) ==
    IF index > Len(values)
    THEN [exists |-> acc.exists, err |-> Nil, queries |-> acc.queries,
          hasher |-> HasherOf(filters)]
    ELSE IF j > Len(filters) THEN ExistLoop(db, filters, values, fail, index + 1, 1, acc)
    ELSE LET f == filters[j]
             h == hashedValue(f, values[index])
             bit == BitOf(f, h)
             n == Len(acc.queries) + 1
             r == StorageExists(db, f.storage, bit, fail # n)
             q == Append(acc.queries, [filter |-> j, bit |-> bit])
         IN  IF r.err # Nil
             THEN [exists |-> acc.exists, err |-> r.err, queries |-> q, hasher |-> h.hasher]
             ELSE CHOOSE x \in
                      {ExistLoop(db, g, values, fail, index, j + 1, a) :
                          g \in {Rehashed(filters, h.hasher)},
                          a \in {[exists |-> [acc.exists EXCEPT ![index] = r.ret],
                                  queries |-> q]}} :
                      TRUE

\* BF.Exist
BFExist(db, filters, values, fail) ==
    ExistLoop(db, filters, values, fail, 1, 1,
              [exists |-> [i \in 1..Len(values) |-> FALSE], queries |-> <<>>])

RECURSIVE ExistsLoop(_, _, _, _, _, _)
\* The loop of BF.Exists from filter j on; fail is the number of the storage
\* query that fails (0: none), err the error of the previous iteration.
ExistsLoop(db, filters, value, fail, j, acc) ==
    IF j > Len(filters)
    THEN [exists |-> TRUE, err |-> acc.err, queries |-> acc.queries,
          hasher |-> HasherOf(filters)]
    ELSE LET f == filters[j]
             h == hashValue(f, value)
             bit == BitOf(f, h)
             r == StorageExists(db, f.storage, bit, fail # j)
             q == Append(acc.queries, [filter |-> j, bit |-> bit])
         IN  IF ~r.ret
             THEN [exists |-> r.ret, err |-> r.err, queries |-> q, hasher |-> h.hasher]
             ELSE CHOOSE x \in
                      {ExistsLoop(db, g, value, fail, j + 1, a) :
                          g \in {Rehashed(filters, h.hasher)},
                          a \in {[err |-> r.err, queries |-> q]}} :
                      TRUE

\* An Exists that, like Exist, keeps the answer of the last filter only.
BFExistsLastOnly(db, filters, value, fail) ==
    LET r == BFExist(db, filters, <<value>>, fail)
    IN  [exists |-> r.exists[1], err |-> r.err, queries |-> r.queries,
         hasher |-> r.hasher]

\* BF.Exists
BFExists(db, filters, value, fail) ==
    ExistsLoop(db, filters, value, fail, 1, [err |-> Nil, queries |-> <<>>])

(***************************************************************************)
(* State.                                                                  *)
(***************************************************************************)
VARIABLES
    redis,    \* the Redis database shared by every remote filter
    cfg,      \* what a behaviour fixes: the size and hashIter every constructor
              \* call gets, MaxActive of the redis.Pool (Wait set; 0 for no limit),
              \* and whether the callers of one instance hold a mutex around calls
    bind,     \* bind[c]: the filter instance caller c works on, 0 for an absent caller
    bf,       \* bf[i]: BF.filters of instance i, <<>> before construction
    pc,       \* pc[c]: where caller c stands
    cur,      \* cur[c]: the locals of the call caller c is in
    unit,     \* unit[c][j]: the goroutine BF.Save started for filter j
    wg,       \* wg[c]: the WaitGroup counter of the Save caller c is in
    ret,      \* ret[c]: what the call that just returned to caller c returned, with
              \* its arguments, the queries it made and the end of each Save unit
    held,     \* held[c]: pool connections held on behalf of caller c
    ins,      \* ins[i]: the values passed to Append/Add/Load on instance i
    flushed,  \* flushed[i]: the values passed before a Save that has completed
    clean     \* no Redis command has failed so far

vars == <<redis, cfg, bind, bf, pc, cur, unit, wg, ret, held, ins, flushed, clean>>

\* before: the database as it was when NewRedis was called; log: the commands
\* the call has issued so far.
NoCall == [op |-> Nil, index |-> 0, expiry |-> 0, exist |-> FALSE, before |-> <<>>,
           log |-> <<>>]
NoRet == [op |-> Nil]
NoUnits == <<>>

Filters(c) == bf[bind[c]]
K == cfg.hashIter

\* Every filter is backed by a RedisStorage.
IsRemote(filters) ==
    filters # <<>> /\ \A j \in DOMAIN filters : filters[j].storage.kind = "redis"

\* The callers that hold a constructed filter and are between calls.
Ready(c) == bind[c] # 0 /\ pc[c] = "ready"

\* The callers that draw from the redis.Pool of caller c: those working on the
\* same filter instance, whose storages all hold the one pool given to NewRedis.
PoolUsers(c) == {d \in Callers : bind[d] = bind[c]}

RECURSIVE HeldBy(_)
\* The connections of the pool that are out.
HeldBy(S) ==
    IF S = {} THEN 0
    ELSE LET d == CHOOSE x \in S : TRUE
         IN  held[d] + HeldBy(S \ {d})

\* pool.Get() returns: at once without a limit, else when fewer than MaxActive
\* connections are out.
PoolHasRoom(c) == cfg.maxActive = 0 \/ HeldBy(PoolUsers(c)) < cfg.maxActive

\* conn := pool.Get()
Get(h, c) == [h EXCEPT ![c] = @ + 1]

\* A Close that does not give the connection back.
CloseLeaks(h, c) == h

\* defer conn.Close()
Close(h, c) == [h EXCEPT ![c] = @ - 1]

\* A call begins.  Callers that serialize their calls hold a mutex of their own
\* around every call on the instance: none begins while another caller of the
\* instance is inside one.
Admitted(c) ==
    cfg.mutex =>
        \A d \in Callers \ {c} :
            bind[d] = bind[c] => pc[d] \in {"off", "none", "ready", "returned"}

\* Room left in every pending queue for n more bits.
QueueRoom(filters, n) ==
    \A j \in DOMAIN filters :
        filters[j].storage.kind = "redis" => Len(filters[j].storage.queue) + n <= MaxQueue

\* The configurations with a pool of one of the limits and callers that
\* serialize their calls or not.
ConfigsWith(limits, mutexes) ==
    {[size |-> g.size, hashIter |-> g.hashIter, maxActive |-> a, mutex |-> x] :
        g \in Configs, a \in limits, x \in mutexes}

InitFor(b, limits, mutexes) ==
    /\ redis = <<>>
    /\ cfg \in ConfigsWith(limits, mutexes)
    /\ bind = b
    /\ bf = [i \in Insts |-> <<>>]
    /\ pc = [c \in Callers |-> IF b[c] = 0 THEN "off" ELSE "none"]
    /\ cur = [c \in Callers |-> NoCall]
    /\ unit = [c \in Callers |-> NoUnits]
    /\ wg = [c \in Callers |-> 0]
    /\ ret = [c \in Callers |-> NoRet]
    /\ held = [c \in Callers |-> 0]
    /\ ins = [i \in Insts |-> {}]
    /\ flushed = [i \in Insts |-> {}]
    /\ clean = TRUE

\* One caller, one filter instance at a time, calls serialized.
\* The pool has no limit.
Init == InitFor([c \in Callers |-> IF c = 1 THEN 1 ELSE 0], {0}, {FALSE})

(***************************************************************************)
(* Construction.                                                           *)
(***************************************************************************)
\* NewBitset: filterSetup, then a fresh BitsetStorage for every filter.
NewBitset(c) ==
    /\ bind[c] # 0 /\ pc[c] \in {"none", "ready"} /\ Admitted(c)
    /\ bf' = [bf EXCEPT ![bind[c]] =
                [j \in 1..K |->
                    [filterSetup(cfg.size, K)[j] EXCEPT
                        !.storage = BitsetStorage(filterSetup(cfg.size, K)[j].size)]]]
    /\ pc' = [pc EXCEPT ![c] = "ready"]
    /\ ins' = [ins EXCEPT ![bind[c]] = {}]
    /\ flushed' = [flushed EXCEPT ![bind[c]] = {}]
    /\ UNCHANGED <<redis, cfg, bind, cur, unit, wg, ret, held, clean>>

\* NewRedis up to the first iteration of its loop: filterSetup, bloom := BF{filters}.
NewRedisCall(c, expiredAfterSeconds) ==
    /\ bind[c] # 0 /\ pc[c] \in {"none", "ready"} /\ Admitted(c)
    /\ bf' = [bf EXCEPT ![bind[c]] = filterSetup(cfg.size, K)]
    /\ cur' = [cur EXCEPT ![c] = [op |-> "NewRedis", index |-> 1,
                                  expiry |-> expiredAfterSeconds, exist |-> FALSE,
                                  before |-> redis, log |-> <<>>]]
    /\ pc' = [pc EXCEPT ![c] = "exists"]
    /\ ins' = [ins EXCEPT ![bind[c]] = {}]
    /\ flushed' = [flushed EXCEPT ![bind[c]] = {}]
    /\ UNCHANGED <<redis, cfg, bind, unit, wg, ret, held, clean>>

\* The storage NewRedisStorage builds for the filter the loop is at.
StoreOf(c) ==
    LET f == Filters(c)[cur[c].index]
    IN  RedisStorage(KeyOf(BaseKey, f.multiplier), f.size)

\* What NewRedis returns, with the filter its loop stopped at, the value exist
\* had before that iteration, and the commands the call issued.
NewRedisRet(c, bloom, exist, err, log) ==
    [op |-> "NewRedis", bloom |-> bloom, exist |-> exist, err |-> err,
     before |-> cur[c].before, index |-> cur[c].index, prev |-> cur[c].exist,
     log |-> log]

\* NewRedis after NewRedisStorage returned (store, exist, nil): the filter gets
\* its storage and the loop goes on, or NewRedis returns (&bloom, exist, nil).
Attached(c, store, exist, log) ==
    /\ bf' = [bf EXCEPT ![bind[c]][cur[c].index].storage = store]
    /\ IF cur[c].index < K
       THEN /\ cur' = [cur EXCEPT ![c].index = @ + 1, ![c].exist = exist,
                                  ![c].log = log]
            /\ pc' = [pc EXCEPT ![c] = "exists"]
            /\ ret' = ret
       ELSE /\ cur' = [cur EXCEPT ![c] = NoCall]
            /\ pc' = [pc EXCEPT ![c] = "returned"]
            /\ ret' = [ret EXCEPT ![c] =
                         NewRedisRet(c, [bf[bind[c]] EXCEPT ![cur[c].index].storage = store],
                                     exist, Nil, log)]

\* A NewRedis that goes on to the next filter after an error.
AbortedGoesOn(c, exist, log) ==
    /\ bf' = bf
    /\ IF cur[c].index < K
       THEN /\ cur' = [cur EXCEPT ![c].index = @ + 1, ![c].log = log]
            /\ pc' = [pc EXCEPT ![c] = "exists"]
            /\ ret' = ret
       ELSE /\ cur' = [cur EXCEPT ![c] = NoCall]
            /\ pc' = [pc EXCEPT ![c] = "returned"]
            /\ ret' = [ret EXCEPT ![c] =
                         NewRedisRet(c, bf[bind[c]], exist, IOError, log)]

\* NewRedis after NewRedisStorage returned an error: return &bloom, exist, err.
\* bloom.filters[index] has not been assigned.
Aborted(c, exist, log) ==
    /\ bf' = bf
    /\ cur' = [cur EXCEPT ![c] = NoCall]
    /\ pc' = [pc EXCEPT ![c] = "returned"]
    /\ ret' = [ret EXCEPT ![c] = NewRedisRet(c, bf[bind[c]], exist, IOError, log)]

\* NewRedisStorage up to the call of init: a connection from the pool, EXISTS
\* key.  A failed EXISTS yields exists = false.  The connection is closed when
\* NewRedisStorage returns, which on a missing key is after init.
StorageCheck(c, ok) ==
    /\ bind[c] # 0 /\ pc[c] = "exists"
    /\ PoolHasRoom(c)
    /\ clean' = (clean /\ ok)
    /\ LET log == Append(cur[c].log, ExistsCmd(StoreOf(c).key))
       IN  IF ~ok
           THEN Aborted(c, FALSE, log) /\ held' = Close(Get(held, c), c)
           ELSE IF KeyExists(redis, StoreOf(c).key)
           THEN Attached(c, StoreOf(c), TRUE, log) /\ held' = Close(Get(held, c), c)
           ELSE /\ pc' = [pc EXCEPT ![c] = "init"]
                /\ held' = Get(held, c)
                /\ cur' = [cur EXCEPT ![c].log = log]
                /\ UNCHANGED <<bf, ret>>
    /\ UNCHANGED <<redis, cfg, bind, unit, wg, ins, flushed>>

\* RedisStorage.init takes a connection of its own from the pool.
StorageGet(c) ==
    /\ bind[c] # 0 /\ pc[c] = "init"
    /\ PoolHasRoom(c)
    /\ held' = Get(held, c)
    /\ pc' = [pc EXCEPT ![c] = "flush"]
    /\ UNCHANGED <<redis, cfg, bind, bf, cur, unit, wg, ret, ins, flushed, clean>>

\* The rest of RedisStorage.init and the return of NewRedisStorage: the server
\* has executed the first n commands of the pipeline; Flush reports an error
\* or not (none only when every command was executed); both connections are
\* closed.
StorageInit(c, n, ok) ==
    /\ bind[c] # 0 /\ pc[c] = "flush"
    /\ LET cmds == InitCmds(StoreOf(c), cur[c].expiry)
           log == cur[c].log \o cmds
       IN  /\ n \in 0..Len(cmds)
           /\ ok => n = Len(cmds)
           /\ redis' = Pipeline(redis, cmds, n)
           /\ IF ok THEN Attached(c, StoreOf(c), FALSE, log) ELSE Aborted(c, FALSE, log)
    /\ clean' = (clean /\ ok)
    /\ held' = Close(Close(held, c), c)
    /\ UNCHANGED <<cfg, bind, unit, wg, ins, flushed>>

(***************************************************************************)
(* Insertion.                                                              *)
(***************************************************************************)
\* The goroutines of Save that are inside RedisStorage.Save on instance i, each
\* as <<caller, filter>>.
Sending(i) ==
    {<<d, j>> \in Callers \X (1..K) :
        bind[d] = i /\ j \in DOMAIN unit[d] /\ unit[d][j] = "sending"}

\* What Append and Add leave with the caller: nothing is returned; readers are
\* the goroutines that were inside RedisStorage.Save on the storages written.
InsertRet(c, op, values) ==
    [op |-> op, values |-> values,
     readers |-> IF IsRemote(Filters(c)) /\ values # <<>> THEN Sending(bind[c]) ELSE {}]

\* BF.Append(value)
BFAppendCall(c, value) ==
    /\ Ready(c) /\ Admitted(c) /\ QueueRoom(Filters(c), 1)
    /\ bf' = [bf EXCEPT ![bind[c]] = BFAppend(@, value)]
    /\ ins' = [ins EXCEPT ![bind[c]] = @ \cup {value}]
    /\ pc' = [pc EXCEPT ![c] = "returned"]
    /\ ret' = [ret EXCEPT ![c] = InsertRet(c, "Append", <<value>>)]
    /\ UNCHANGED <<redis, cfg, bind, cur, unit, wg, held, flushed, clean>>

\* BF.Add(values...)
BFAddCall(c, values) ==
    /\ Ready(c) /\ Admitted(c) /\ QueueRoom(Filters(c), Len(values))
    /\ bf' = [bf EXCEPT ![bind[c]] = BFAdd(@, values)]
    /\ ins' = [ins EXCEPT ![bind[c]] = @ \cup {values[n] : n \in 1..Len(values)}]
    /\ pc' = [pc EXCEPT ![c] = "returned"]
    /\ ret' = [ret EXCEPT ![c] = InsertRet(c, "Add", values)]
    /\ UNCHANGED <<redis, cfg, bind, cur, unit, wg, held, flushed, clean>>

(***************************************************************************)
(* Save: one goroutine per filter, joined by a WaitGroup.                  *)
(***************************************************************************)
\* wg.Add(1) and go func(f) for every filter.
Spawn(c, op) ==
    /\ unit' = [unit EXCEPT ![c] = [j \in 1..K |-> "spawned"]]
    /\ wg' = [wg EXCEPT ![c] = K]
    /\ cur' = [cur EXCEPT ![c] = [NoCall EXCEPT !.op = op]]
    /\ pc' = [pc EXCEPT ![c] = "save"]

\* BF.Save up to wg.Wait().
BFSaveCall(c) ==
    /\ Ready(c) /\ Admitted(c)
    /\ Spawn(c, "Save")
    /\ UNCHANGED <<redis, cfg, bind, bf, ret, held, ins, flushed, clean>>

\* BF.Load(values...): b.Add(values...), then b.Save() up to wg.Wait().
BFLoadCall(c, values) ==
    /\ Ready(c) /\ Admitted(c) /\ QueueRoom(Filters(c), Len(values))
    /\ bf' = [bf EXCEPT ![bind[c]] = BFAdd(@, values)]
    /\ ins' = [ins EXCEPT ![bind[c]] = @ \cup {values[n] : n \in 1..Len(values)}]
    /\ Spawn(c, "Load")
    /\ UNCHANGED <<redis, cfg, bind, ret, held, flushed, clean>>

\* A unit whose failure releases the WaitGroup at once.
UnitDoneAbort(c, j, state) ==
    /\ unit' = [unit EXCEPT ![c][j] = state]
    /\ wg' = [wg EXCEPT ![c] = IF state = "failed" THEN 0 ELSE @ - 1]

\* defer wg.Done()
UnitDone(c, j, state) ==
    /\ unit' = [unit EXCEPT ![c][j] = state]
    /\ wg' = [wg EXCEPT ![c] = @ - 1]

\* The goroutine of filter j enters f.storage.Save(): a bitset has nothing to
\* do, a RedisStorage returns on an empty queue or takes a connection.
UnitStart(c, j) ==
    /\ bind[c] # 0 /\ pc[c] = "save"
    /\ j \in DOMAIN unit[c] /\ unit[c][j] = "spawned"
    /\ LET s == Filters(c)[j].storage
       IN  IF s.kind = "redis" /\ ~SaveSkips(s)
           THEN /\ PoolHasRoom(c)
                /\ unit' = [unit EXCEPT ![c][j] = "sending"]
                /\ held' = Get(held, c)
                /\ wg' = wg
           ELSE UnitDone(c, j, "done") /\ held' = held
    /\ UNCHANGED <<redis, cfg, bind, bf, pc, cur, ret, ins, flushed, clean>>

\* The rest of RedisStorage.Save: Send for every queued bit, Flush (its error
\* dropped), Close.  The server has executed the first n commands.
UnitFlush(c, j, n, ok) ==
    /\ bind[c] # 0 /\ pc[c] = "save"
    /\ j \in DOMAIN unit[c] /\ unit[c][j] = "sending"
    /\ LET s == Filters(c)[j].storage
           cmds == SaveCmds(s)
       IN  /\ n \in 0..Len(cmds)
           /\ ok => n = Len(cmds)
           /\ redis' = Pipeline(redis, cmds, n)
           /\ bf' = [bf EXCEPT ![bind[c]][j].storage.queue = QueueAfterSave(s)]
    /\ clean' = (clean /\ ok)
    /\ held' = Close(held, c)
    /\ UnitDone(c, j, IF ok THEN "done" ELSE "failed")
    /\ UNCHANGED <<cfg, bind, pc, cur, ret, ins, flushed>>

\* A Save that does not wait.
JoinedNoWait(c) == TRUE

\* wg.Wait() lets the caller through.
Joined(c) == wg[c] = 0

\* BF.Save returns; BF.Load returns (nil, nil) after it.
BFSaveReturn(c) ==
    /\ bind[c] # 0 /\ pc[c] = "save"
    /\ Joined(c)
    /\ flushed' = [flushed EXCEPT ![bind[c]] = ins[bind[c]]]
    /\ cur' = [cur EXCEPT ![c] = NoCall]
    /\ pc' = [pc EXCEPT ![c] = "returned"]
    /\ ret' = [ret EXCEPT ![c] =
                 IF cur[c].op = "Load"
                 THEN [op |-> "Load", exists |-> <<>>, err |-> Nil, units |-> unit[c]]
                 ELSE [op |-> "Save", units |-> unit[c]]]
    /\ UNCHANGED <<redis, cfg, bind, bf, unit, wg, held, ins, clean>>

(***************************************************************************)
(* Queries.                                                                *)
(***************************************************************************)
RECURSIVE Queried(_, _, _)
\* RedisStorage.Exists n times over: pool.Get(), GETBIT, the deferred Close.
Queried(h, c, n) ==
    IF n = 0 THEN h ELSE Queried(Close(Get(h, c), c), c, n - 1)

\* The connections held after the queries of a call: a bitset takes none.
AfterQueries(c, queries) ==
    IF IsRemote(Filters(c)) THEN Queried(held, c, Len(queries)) ELSE held

\* BF.Exists(value); fail numbers the storage query that fails, 0 for none.
BFExistsCall(c, value, fail) ==
    /\ Ready(c) /\ Admitted(c)
    /\ IsRemote(Filters(c)) => PoolHasRoom(c)
    /\ LET r == BFExists(redis, Filters(c), value, fail)
       IN  /\ ret' = [ret EXCEPT ![c] = [op |-> "Exists", value |-> value, fail |-> fail,
                                         exists |-> r.exists, err |-> r.err,
                                         queries |-> r.queries]]
           /\ clean' = (clean /\ r.err = Nil)
           /\ held' = AfterQueries(c, r.queries)
           /\ bf' = [bf EXCEPT ![bind[c]] = Rehashed(@, r.hasher)]
    /\ pc' = [pc EXCEPT ![c] = "returned"]
    /\ UNCHANGED <<redis, cfg, bind, cur, unit, wg, ins, flushed>>

\* BF.Exist(values...)
BFExistCall(c, values, fail) ==
    /\ Ready(c) /\ Admitted(c)
    /\ IsRemote(Filters(c)) => PoolHasRoom(c)
    /\ LET r == BFExist(redis, Filters(c), values, fail)
       IN  /\ ret' = [ret EXCEPT ![c] = [op |-> "Exist", values |-> values, fail |-> fail,
                                         exists |-> r.exists, err |-> r.err,
                                         queries |-> r.queries]]
           /\ clean' = (clean /\ r.err = Nil)
           /\ held' = AfterQueries(c, r.queries)
           /\ bf' = [bf EXCEPT ![bind[c]] = Rehashed(@, r.hasher)]
    /\ pc' = [pc EXCEPT ![c] = "returned"]
    /\ UNCHANGED <<redis, cfg, bind, cur, unit, wg, ins, flushed>>

\* The caller takes the result and is free to make its next call.  A caller
\* that got an error from NewRedis drops the filter returned with it.
Return(c) ==
    /\ bind[c] # 0 /\ pc[c] = "returned"
    /\ pc' = [pc EXCEPT ![c] =
                IF ret[c].op = "NewRedis" /\ ret[c].err # Nil THEN "none" ELSE "ready"]
    /\ ret' = [ret EXCEPT ![c] = NoRet]
    /\ unit' = [unit EXCEPT ![c] = NoUnits]
    /\ UNCHANGED <<redis, cfg, bind, bf, cur, wg, held, ins, flushed, clean>>

Batches == SeqsUpTo(Values, MaxBatch)

Next ==
    \E c \in Callers :
        \/ NewBitset(c)
        \/ \E e \in Expiries : NewRedisCall(c, e)
        \/ \E ok \in BOOLEAN : StorageCheck(c, ok)
        \/ StorageGet(c)
        \/ \E n \in 0..(cfg.size + 1), ok \in BOOLEAN : StorageInit(c, n, ok)
        \/ \E v \in Values : BFAppendCall(c, v)
        \/ \E vs \in Batches : BFAddCall(c, vs)
        \/ BFSaveCall(c)
        \/ \E vs \in Batches : BFLoadCall(c, vs)
        \/ \E j \in 1..K : UnitStart(c, j)
        \/ \E j \in 1..K, n \in 0..MaxQueue, ok \in BOOLEAN : UnitFlush(c, j, n, ok)
        \/ BFSaveReturn(c)
        \/ \E v \in Values, fail \in 0..K : BFExistsCall(c, v, fail)
        \/ \E vs \in Batches, fail \in 0..(MaxBatch * K) : BFExistCall(c, vs, fail)
        \/ Return(c)

Spec == Init /\ [][Next]_vars

\* A started goroutine runs, a Redis command ends (with or without an error),
\* and a caller whose WaitGroup is down to zero is woken.
UnitStep(c) ==
    \E j \in 1..K :
        \/ UnitStart(c, j)
        \/ \E n \in 0..MaxQueue, ok \in BOOLEAN : UnitFlush(c, j, n, ok)

LiveSpec ==
    Spec /\ \A c \in Callers : WF_vars(UnitStep(c)) /\ WF_vars(BFSaveReturn(c))

(***************************************************************************)
(* Two callers on one remote filter.  The instance is as NewRedis returned *)
(* it on an empty database (with a positive expiry); a goroutine was handed*)
(* the same *BF.  The callers insert and save, each call when it likes, or *)
(* under a mutex of theirs.  A flush sends the queue as it is when its     *)
(* loop runs.                                                              *)
(***************************************************************************)
\* The filters of a NewRedis that met no error.
Constructed(size, hashIter) ==
    [j \in 1..hashIter |->
        LET f == filterSetup(size, hashIter)[j]
        IN  [f EXCEPT !.storage = RedisStorage(KeyOf(BaseKey, f.multiplier), f.size)]]

\* The database after init has run for each of the keys.
ZeroedKeys(hashIter) == [key \in {KeyOf(BaseKey, j) : j \in 1..hashIter} |-> {}]

InitShared ==
    /\ cfg \in ConfigsWith({0}, BOOLEAN)
    /\ redis = ZeroedKeys(cfg.hashIter)
    /\ bind = [c \in Callers |-> 1]
    /\ bf = [i \in Insts |-> IF i = 1 THEN Constructed(cfg.size, cfg.hashIter) ELSE <<>>]
    /\ pc = [c \in Callers |-> "ready"]
    /\ cur = [c \in Callers |-> NoCall]
    /\ unit = [c \in Callers |-> NoUnits]
    /\ wg = [c \in Callers |-> 0]
    /\ ret = [c \in Callers |-> NoRet]
    /\ held = [c \in Callers |-> 0]
    /\ ins = [i \in Insts |-> {}]
    /\ flushed = [i \in Insts |-> {}]
    /\ clean = TRUE

SharedNext ==
    \E c \in Callers :
        \/ \E v \in Values : BFAppendCall(c, v)
        \/ \E vs \in Batches : BFAddCall(c, vs)
        \/ BFSaveCall(c)
        \/ \E j \in 1..K : UnitStart(c, j)
        \/ \E j \in 1..K, n \in 0..MaxQueue, ok \in BOOLEAN : UnitFlush(c, j, n, ok)
        \/ BFSaveReturn(c)
        \/ Return(c)

RaceSpec == InitShared /\ [][SharedNext]_vars

(***************************************************************************)
(* One caller whose redis.Pool blocks in Get while MaxActive connections   *)
(* are out.                                                                *)
(***************************************************************************)
InitPool == InitFor([c \in Callers |-> IF c = 1 THEN 1 ELSE 0], PoolLimits, {FALSE})

PoolSpec == InitPool /\ [][Next]_vars

(***************************************************************************)
(* Two processes, each with a pool and a filter instance of its own,       *)
(* construct remote filters on the same base key of the one Redis server,  *)
(* with a positive expiry, insert and save.  No command fails.             *)
(***************************************************************************)
InitTwo == InitFor([c \in Callers |-> c], {0}, {FALSE})

TwoNext ==
    \E c \in Callers :
        \/ \E e \in {x \in Expiries : x > 0} : NewRedisCall(c, e)
        \/ StorageCheck(c, TRUE)
        \/ StorageGet(c)
        \/ \E n \in 0..(cfg.size + 1) : StorageInit(c, n, TRUE)
        \/ \E v \in Values : BFAppendCall(c, v)
        \/ BFSaveCall(c)
        \/ \E j \in 1..K : UnitStart(c, j)
        \/ \E j \in 1..K, n \in 0..MaxQueue : UnitFlush(c, j, n, TRUE)
        \/ BFSaveReturn(c)
        \/ Return(c)

TwoSpec == InitTwo /\ [][TwoNext]_vars

(***************************************************************************)
(* Claims.                                                                 *)
(***************************************************************************)

\* The bit is one in the storage's own bit array.
StoredBit(db, s, bit) ==
    IF s.kind = "redis" THEN s.key \in DOMAIN db /\ bit \in db[s.key] ELSE bit \in s.bits

\* C1: with no backend failure so far, every value passed to Append, Add or
\* Load before a Save that has completed is reported present: an Exists call
\* that just returned for it returned (true, nil), and an Exists call made now
\* with no failing query would.
C1_NoFalseNegatives ==
    \A c \in Callers :
        (bind[c] # 0 /\ clean) =>
            /\ (pc[c] = "returned" /\ ret[c].op = "Exists"
                    /\ ret[c].value \in flushed[bind[c]])
                 => (ret[c].exists /\ ret[c].err = Nil)
            /\ Ready(c) =>
                 \A v \in flushed[bind[c]] :
                     LET r == BFExists(redis, Filters(c), v, 0)
                     IN  r.exists /\ r.err = Nil

\* C1 witness: Exists has just answered for a flushed value on a remote filter.
C1_Witness ==
    \E c \in Callers :
        /\ bind[c] # 0 /\ clean /\ pc[c] = "returned" /\ ret[c].op = "Exists"
        /\ IsRemote(Filters(c))
        /\ ret[c].value \in flushed[bind[c]]

\* C2 (as claimed, read on a remote filter): when no query fails,
\* Exist(values)[i] is the boolean Exists(values[i]) returns, for every index i.
C2_BatchMatchesSingle ==
    \A c \in Callers :
        (bind[c] # 0 /\ pc[c] = "returned" /\ ret[c].op = "Exist" /\ ret[c].err = Nil
             /\ IsRemote(Filters(c))) =>
            \A n \in 1..Len(ret[c].values) :
                ret[c].exists[n] = BFExists(redis, Filters(c), ret[c].values[n], 0).exists

\* (a + i*b) mod partitionSize for filter f: a and b the first and the last
\* four bytes, big-endian, of the 64-bit FNV-1 of the value.
IndexOf(f, value) ==
    LET sum == Digest[value]
        a == Uint32Mod(<<sum[1], sum[2], sum[3], sum[4]>>, f.size)
        b == Uint32Mod(<<sum[5], sum[6], sum[7], sum[8]>>, f.size)
    IN  (a + (f.multiplier * b)) % f.size

\* Every filter's bit of the value is one in that filter's storage.
AllBitsSet(db, filters, value) ==
    \A j \in DOMAIN filters :
        StoredBit(db, filters[j].storage, IndexOf(filters[j], value))

\* C3: an Exists call in which no storage query failed returned a nil error,
\* and true exactly when the bit (a + i*b) mod partitionSize is one in the
\* storage of every filter i.
C3_ExistsIffAllBitsSet ==
    \A c \in Callers :
        (bind[c] # 0 /\ pc[c] = "returned" /\ ret[c].op = "Exists"
             /\ (ret[c].fail = 0 \/ ret[c].fail > Len(ret[c].queries))) =>
            /\ ret[c].err = Nil
            /\ ret[c].exists = AllBitsSet(redis, Filters(c), ret[c].value)

\* C3 witness: Exists answered true on a remote filter after querying every filter.
C3_Witness ==
    \E c \in Callers :
        /\ bind[c] # 0 /\ pc[c] = "returned" /\ ret[c].op = "Exists"
        /\ IsRemote(Filters(c))
        /\ ret[c].fail = 0 /\ ret[c].exists /\ Len(ret[c].queries) = K

\* The step is an insertion into the remote filter instance i: its storages
\* change and the caller stays between calls (Append, Add) or goes on to
\* Save (Load).
InsertStep(i) ==
    /\ IsRemote(bf[i]) /\ IsRemote(bf'[i])
    /\ \E j \in DOMAIN bf[i] : bf'[i][j].storage # bf[i][j].storage

IsPrefix(q, r) == Len(q) <= Len(r) /\ \A n \in 1..Len(q) : r[n] = q[n]

\* A goroutine of Save ends its flush in this step.
FlushStep ==
    \E c \in Callers : \E j \in DOMAIN unit[c] :
        unit[c][j] = "sending" /\ unit'[c][j] \in {"done", "failed"}

\* C4: an insertion into a remote filter only extends the pending queues: the
\* database is left as it is, and with it every Exists and Exist answer of
\* every filter on the same keys; a bit of the database turns one only in a
\* step that ends a flush of Save.
C4_InsertOnlyQueues ==
    [][ /\ \A i \in Insts :
            InsertStep(i) =>
                /\ redis' = redis
                /\ \A j \in DOMAIN bf[i] :
                       /\ IsPrefix(bf[i][j].storage.queue, bf'[i][j].storage.queue)
                       /\ bf'[i][j].storage.key = bf[i][j].storage.key
                /\ \A i2 \in Insts : \A v \in Values :
                       IsRemote(bf[i2]) =>
                           BFExists(redis', bf'[i2], v, 0).exists
                               = BFExists(redis, bf[i2], v, 0).exists
        /\ (\E key \in DOMAIN redis' :
               \E bit \in redis'[key] : GetBit(redis, key, bit) = 0) => FlushStep
      ]_vars

\* C4 witness: a value is queued on a remote filter, no Save has run since,
\* and Exists still answers false for it.
C4_Witness ==
    \E c \in Callers :
        /\ Ready(c) /\ IsRemote(Filters(c))
        /\ \E v \in ins[bind[c]] \ flushed[bind[c]] :
               /\ ~BFExists(redis, Filters(c), v, 0).exists
               /\ \A j \in 1..K : Filters(c)[j].storage.queue # <<>>

\* Save (or the Save of Load) has just returned to caller c.
SaveReturned(c) ==
    bind[c] # 0 /\ pc[c] = "returned" /\ ret[c].op \in {"Save", "Load"}

\* C5 (as claimed): after a Save in which no flush failed, the pending queue
\* of every remote storage is empty.
C5_QueueEmptyAfterSave ==
    \A c \in Callers :
        (SaveReturned(c) /\ IsRemote(Filters(c))
             /\ \A j \in 1..K : ret[c].units[j] = "done") =>
            \A j \in 1..K : Filters(c)[j].storage.queue = <<>>

\* Every bit queued on the storage is one in the database.
QueueStored(db, s) ==
    \A n \in 1..Len(s.queue) : GetBit(db, s.key, s.queue[n]) = 1

\* C6: while Save runs there is one unit per filter and the WaitGroup counts
\* the unfinished ones; when Save returns every unit has finished, none holds
\* a connection, and every unit that ended without error has all its queued
\* bits set; a Save that was entered returns.
C6_SaveJoinsUnits ==
    /\ [](\A c \in Callers :
            /\ (bind[c] # 0 /\ pc[c] = "save") =>
                  /\ DOMAIN unit[c] = 1..K
                  /\ wg[c] = Cardinality({j \in 1..K : unit[c][j] \in {"spawned", "sending"}})
            /\ SaveReturned(c) =>
                  /\ DOMAIN ret[c].units = 1..K
                  /\ \A j \in 1..K : ret[c].units[j] \in {"done", "failed"}
                  /\ held[c] = 0
                  /\ \A j \in 1..K :
                         (ret[c].units[j] = "done" /\ IsRemote(Filters(c)))
                             => QueueStored(redis, Filters(c)[j].storage))
    /\ \A c \in Callers : (pc[c] = "save") ~> (pc[c] = "returned")

\* C6 witness: Save has returned on a remote filter whose units all flushed
\* a non-empty queue.
C6_Witness ==
    \E c \in Callers :
        /\ SaveReturned(c) /\ IsRemote(Filters(c))
        /\ \A j \in 1..K :
               ret[c].units[j] = "done" /\ Filters(c)[j].storage.queue # <<>>

\* C7: Save returns no error; when the flush of one filter failed, every
\* other unit has still run to its end by the time Save returns, the ones
\* that ended without error with all their queued bits set, and a Save in
\* which a flush failed still returns.
C7_FlushFailureIsolated ==
    /\ [](\A c \in Callers :
            (SaveReturned(c) /\ ret[c].op = "Save") =>
                /\ "err" \notin DOMAIN ret[c]
                /\ \A i \in 1..K :
                       ret[c].units[i] = "failed" =>
                           \A j \in (1..K) \ {i} :
                               /\ ret[c].units[j] \in {"done", "failed"}
                               /\ ret[c].units[j] = "done"
                                      => QueueStored(redis, Filters(c)[j].storage))
    /\ \A c \in Callers :
           (pc[c] = "save" /\ \E j \in DOMAIN unit[c] : unit[c][j] = "failed")
               ~> (pc[c] = "returned")

\* C7 witness: Save has returned after the flush of the first filter failed
\* and the flush of another succeeded.
C7_Witness ==
    \E c \in Callers :
        /\ SaveReturned(c) /\ ret[c].op = "Save"
        /\ ret[c].units[1] = "failed"
        /\ \E j \in 2..K : ret[c].units[j] = "done" /\ Filters(c)[j].storage.queue # <<>>

\* The bit arrays after the filters are saved without failure: the database
\* after every storage's flush, and the bits of every bitset.
RECURSIVE SaveAll(_, _, _)
SaveAll(db, filters, j) ==
    IF j > Len(filters) THEN db
    ELSE LET s == filters[j].storage
         IN  SaveAll(IF s.kind = "redis" /\ ~SaveSkips(s)
                     THEN Pipeline(db, SaveCmds(s), Len(SaveCmds(s)))
                     ELSE db,
                     filters, j + 1)

BitArrays(db, filters) ==
    [db |-> SaveAll(db, filters, 1),
     local |-> [j \in DOMAIN filters |->
                   IF filters[j].storage.kind = "bitset" THEN filters[j].storage.bits ELSE {}]]

\* C8: from every state a filter is in between calls, inserting a value twice
\* and saving leaves the same bit arrays as inserting it once and saving, by
\* Append and by Add.
C8_InsertIdempotent ==
    \A c \in Callers :
        Ready(c) =>
            \A v \in Values :
                /\ BitArrays(redis, BFAppend(BFAppend(Filters(c), v), v))
                       = BitArrays(redis, BFAppend(Filters(c), v))
                /\ BitArrays(redis, BFAdd(Filters(c), <<v, v>>))
                       = BitArrays(redis, BFAdd(Filters(c), <<v>>))

\* C8 witness: a remote filter whose first queue holds the same bit twice has
\* been saved, and the bit is set.
C8_Witness ==
    \E c \in Callers :
        /\ SaveReturned(c) /\ IsRemote(Filters(c))
        /\ \A j \in 1..K : ret[c].units[j] = "done"
        /\ LET q == Filters(c)[1].storage.queue
           IN  Len(q) = 2 /\ q[1] = q[2] /\ ins[bind[c]] = {<<99>>}
                   /\ GetBit(redis, Filters(c)[1].storage.key, q[1]) = 1

\* The keys of a remote filter with base key BaseKey and k = K.
BitRange == 0..(PartitionSize(cfg.size, K) - 1)

\* C9: the database holds no key but K.1 .. K.k and no bit outside
\* [0, ceil(m/k)); filter i of a remote filter has key K.i, queues only bits
\* of that range and is queried only at them; init addresses only the key of
\* the filter under construction and the bits of that range.
C9_KeyIsolation ==
    /\ DOMAIN redis \subseteq {<<BaseKey, j>> : j \in 1..K}
    /\ \A key \in DOMAIN redis : redis[key] \subseteq BitRange
    /\ \A c \in Callers :
        bind[c] # 0 =>
            /\ \A j \in DOMAIN Filters(c) :
                   Filters(c)[j].storage.kind = "redis" =>
                       /\ Filters(c)[j].storage.key = <<BaseKey, j>>
                       /\ \A n \in 1..Len(Filters(c)[j].storage.queue) :
                              Filters(c)[j].storage.queue[n] \in BitRange
            /\ (pc[c] = "ready" /\ Filters(c)[1].storage.kind = "redis") =>
                   {Filters(c)[j].storage.key : j \in DOMAIN Filters(c)}
                       = {<<BaseKey, j>> : j \in 1..K}
            /\ (pc[c] = "returned" /\ ret[c].op \in {"Exists", "Exist"}) =>
                   \A n \in 1..Len(ret[c].queries) :
                       /\ ret[c].queries[n].filter \in 1..K
                       /\ ret[c].queries[n].bit \in BitRange
            /\ pc[c] \in {"init", "flush"} =>
                   LET cmds == InitCmds(StoreOf(c), cur[c].expiry)
                   IN  \A n \in 1..Len(cmds) :
                           /\ cmds[n].key = <<BaseKey, cur[c].index>>
                           /\ cmds[n].cmd = "SETBIT" => cmds[n].bit \in BitRange

\* C9 witness: all k keys exist, one of them holding bit 1, after a remote
\* filter of size 5 (partitions of ceil(5/2) = 3 bits) was saved.
C9_Witness ==
    /\ cfg.size = 5
    /\ DOMAIN redis = {<<BaseKey, j>> : j \in 1..K}
    /\ \E j \in 1..K : 1 \in redis[<<BaseKey, j>>]
    /\ \E c \in Callers : SaveReturned(c) /\ IsRemote(Filters(c))

\* NewRedis runs, or has just returned, for a call made when all k keys existed.
AllKeysIn(db) == \A j \in 1..K : <<BaseKey, j>> \in DOMAIN db

\* C10: a NewRedis called while all k keys exist never reaches init and leaves
\* the database as it found it; when it returns without error it reports
\* keyAlreadyExisted = true.
C10_SecondConstructionKeepsBits ==
    \A c \in Callers :
        /\ (bind[c] # 0 /\ pc[c] \in {"exists", "init", "flush"}
                /\ AllKeysIn(cur[c].before)) =>
               pc[c] = "exists" /\ redis = cur[c].before
        /\ (bind[c] # 0 /\ pc[c] = "returned" /\ ret[c].op = "NewRedis"
                /\ AllKeysIn(ret[c].before)) =>
               /\ redis = ret[c].before
               /\ ret[c].err = Nil => ret[c].exist

\* C10 witness: NewRedis has returned (true, nil) over keys that hold one-bits.
C10_Witness ==
    \E c \in Callers :
        /\ bind[c] # 0 /\ pc[c] = "returned" /\ ret[c].op = "NewRedis"
        /\ AllKeysIn(ret[c].before)
        /\ ret[c].err = Nil /\ ret[c].exist
        /\ \A j \in 1..K : redis[<<BaseKey, j>>] # {}

\* NewRedis has just returned to caller c.
NewRedisReturned(c) ==
    bind[c] # 0 /\ pc[c] = "returned" /\ ret[c].op = "NewRedis"

\* Caller c is inside NewRedis.
Constructing(c) == bind[c] # 0 /\ pc[c] \in {"exists", "init", "flush"}

\* The key of database db with multiplier j: whether it exists, and its one-bits.
KeyState(db, j) ==
    IF <<BaseKey, j>> \in DOMAIN db
    THEN [exists |-> TRUE, bits |-> db[<<BaseKey, j>>]]
    ELSE [exists |-> FALSE, bits |-> {}]

\* C11: NewRedis reaches filter j only after every filter before it got its
\* storage without error; when the EXISTS or the init of filter j fails,
\* NewRedis returns the error at once: it has issued no EXISTS, SETBIT or
\* EXPIRE for a key with a multiplier above j, and those keys are as they were
\* when it was called.  A NewRedis that returns no error has attached all k.
C11_ShortCircuit ==
    \A c \in Callers :
        /\ Constructing(c) =>
               \A i \in 1..(cur[c].index - 1) : Filters(c)[i].storage.kind = "redis"
        /\ NewRedisReturned(c) =>
               /\ ret[c].err = Nil => (ret[c].index = K /\ IsRemote(ret[c].bloom))
               /\ ret[c].err # Nil =>
                      /\ ret[c].log # <<>>
                      /\ \A n \in 1..Len(ret[c].log) : ret[c].log[n].key[2] <= ret[c].index
                      /\ ret[c].log[Len(ret[c].log)].key[2] = ret[c].index
                      /\ \A i \in (ret[c].index + 1)..K :
                             KeyState(redis, i) = KeyState(ret[c].before, i)

\* C11 witness: NewRedis has returned the error of an init of the first filter
\* that the server had begun to execute; the second key is still missing.
C11_Witness ==
    \E c \in Callers :
        /\ NewRedisReturned(c) /\ ret[c].err # Nil /\ ret[c].index = 1 /\ K > 1
        /\ Len(ret[c].log) > 1
        /\ KeyState(redis, 1).exists /\ ~KeyState(redis, 2).exists

\* C12 (as claimed): a NewRedis that returns an error at filter j returns as
\* keyAlreadyExisted the answer of the last existence check that succeeded:
\* false when the EXISTS of key j succeeded and its init failed, and the
\* answer for key j-1 when the EXISTS of key j failed.
C12_FlagOfLastCheck ==
    \A c \in Callers :
        (NewRedisReturned(c) /\ ret[c].err # Nil) =>
            IF ret[c].log[Len(ret[c].log)].cmd # "EXISTS"
            THEN ~ret[c].exist
            ELSE ret[c].index > 1 => ret[c].exist = ret[c].prev

\* Some filters of the filter object have their storage and some have none.
PartlyAttached(filters) ==
    /\ \E j \in DOMAIN filters : filters[j].storage.kind = "redis"
    /\ \E j \in DOMAIN filters : filters[j].storage = NoStorage

\* C13 (as claimed): a NewRedis that returns an error hands the caller no
\* filter object whose filters are only partly attached to storage.
C13_NoPartialFilter ==
    \A c \in Callers :
        (NewRedisReturned(c) /\ ret[c].err # Nil) => ~PartlyAttached(ret[c].bloom)

\* Exist has just returned to caller c after its storage query number
\* ret[c].fail failed (a bitset query cannot fail).
ExistFailed(c) ==
    /\ bind[c] # 0 /\ pc[c] = "returned" /\ ret[c].op = "Exist"
    /\ IsRemote(Filters(c))
    /\ ret[c].fail \in 1..(Len(ret[c].values) * K)

\* C14: when a storage query fails while Exist looks up values[j], Exist
\* returns the error; the failed query is the last one issued, the queries
\* before it went filter by filter through values[1..j]; the result has one
\* entry per value, those before j as an Exist without failure gives them and
\* those after j false.
C14_BatchAbortsOnError ==
    \A c \in Callers :
        ExistFailed(c) =>
            LET j == ((ret[c].fail - 1) \div K) + 1
            IN  /\ ret[c].err = IOError
                /\ Len(ret[c].queries) = ret[c].fail
                /\ \A n \in 1..Len(ret[c].queries) :
                       LET f == Filters(c)[((n - 1) % K) + 1]
                           v == ret[c].values[((n - 1) \div K) + 1]
                       IN  /\ ret[c].queries[n].filter = f.multiplier
                           /\ ret[c].queries[n].bit = IndexOf(f, v)
                /\ Len(ret[c].exists) = Len(ret[c].values)
                /\ \A i \in 1..(j - 1) :
                       ret[c].exists[i]
                           = BFExist(redis, Filters(c), ret[c].values, 0).exists[i]
                /\ \A i \in (j + 1)..Len(ret[c].values) : ~ret[c].exists[i]

\* C14 witness: Exist of two values failed at the first query for the second
\* value, and the entry of the first value is true.
C14_Witness ==
    \E c \in Callers :
        /\ ExistFailed(c) /\ Len(ret[c].values) = 2 /\ ret[c].fail = K + 1
        /\ ret[c].exists[1] /\ ret[c].err = IOError

\* C15: a caller between calls holds no connection, whatever its calls
\* returned; inside NewRedis it holds none before the existence check of a
\* key, the one of NewRedisStorage while init waits for its own, and these two
\* until init ends; inside Save it holds one per goroutine that is flushing.
C15_ScopedConnections ==
    \A c \in Callers :
        bind[c] # 0 =>
            /\ pc[c] \in {"none", "ready", "returned", "exists"} => held[c] = 0
            /\ pc[c] = "init" => held[c] = 1
            /\ pc[c] = "flush" => held[c] = 2
            /\ pc[c] = "save" =>
                   held[c] = Cardinality({j \in DOMAIN unit[c] : unit[c][j] = "sending"})

\* C15 witness: NewRedis has returned the error of an init, called after
\* earlier Saves had set bits; no connection is held.
C15_Witness ==
    \E c \in Callers :
        /\ NewRedisReturned(c) /\ ret[c].err # Nil
        /\ ret[c].log[Len(ret[c].log)].cmd = "EXPIRE"
        /\ \E key \in DOMAIN ret[c].before : ret[c].before[key] # {}
        /\ held[c] = 0

\* The Append or Add that has just returned to caller c wrote queues while
\* goroutines of Save were inside RedisStorage.Save on the same storages.
Raced(c) ==
    /\ bind[c] # 0 /\ pc[c] = "returned" /\ ret[c].op \in {"Append", "Add"}
    /\ ret[c].readers # {}

\* C16: an insertion writes a queue that a flush of Save is reading only when
\* the callers do not serialize their calls, and then the Save is another
\* caller's.
C16_RaceOnlyUnserialized ==
    \A c \in Callers :
        Raced(c) => (~cfg.mutex /\ \A r \in ret[c].readers : r[1] # c)

\* C16 witness: an Append of one caller has returned while the flush of the
\* first filter in the Save of the other caller, begun before it, still runs.
C16_Witness ==
    \E c \in Callers, d \in Callers :
        /\ Raced(c) /\ ret[c].op = "Append" /\ <<d, 1>> \in ret[c].readers
        /\ c # d /\ bind[c] = bind[d] /\ pc[d] = "save" /\ unit[d][1] = "sending"

\* Storage new is storage old after the bits were appended to it, in order.
Appended(old, new, bits) ==
    IF old.kind = "redis"
    THEN new.queue = old.queue \o bits /\ new.key = old.key
    ELSE new.bits = old.bits \cup {bits[n] : n \in 1..Len(bits)}

\* C17: whatever calls were made before, for all values v and w: Append(v)
\* and Add(v, w) append, in filter i, the index (a + i*b) mod partitionSize of
\* each value, a and b being the first and the last 32 bits of the value's
\* FNV-1 digest, and Exists(v) and Exist(v, w) query filter i at that index.
C17_SameIndexEverywhere ==
    \A c \in Callers :
        Ready(c) =>
            LET fs == Filters(c)
            IN  \A v \in Values, w \in Values :
                    /\ \A j \in 1..K :
                           /\ Appended(fs[j].storage, BFAppend(fs, v)[j].storage,
                                       <<IndexOf(fs[j], v)>>)
                           /\ Appended(fs[j].storage, BFAdd(fs, <<v, w>>)[j].storage,
                                       <<IndexOf(fs[j], v), IndexOf(fs[j], w)>>)
                    /\ LET q == BFExists(redis, fs, v, 0).queries
                       IN  \A n \in 1..Len(q) :
                               q[n] = [filter |-> n, bit |-> IndexOf(fs[n], v)]
                    /\ LET q == BFExist(redis, fs, <<v, w>>, 0).queries
                       IN  /\ Len(q) = 2 * K
                           /\ \A n \in 1..K :
                                  /\ q[n] = [filter |-> n, bit |-> IndexOf(fs[n], v)]
                                  /\ q[K + n] = [filter |-> n, bit |-> IndexOf(fs[n], w)]

\* C17 witness: a remote filter between calls into which only "c" was
\* inserted and whose hash object last hashed "ab".
C17_Witness ==
    \E c \in Callers :
        /\ Ready(c) /\ IsRemote(Filters(c))
        /\ ins[bind[c]] = {<<99>>}
        /\ HasherOf(Filters(c)) = <<97, 98>>

\* The query of filter n, in the Exists call that has just returned to caller
\* c, found the bit of the value unset, or failed (a bitset query cannot).
FoundUnset(c, n) ==
    ~StoredBit(redis, Filters(c)[n].storage, IndexOf(Filters(c)[n], ret[c].value))

QueryFailed(c, n) == IsRemote(Filters(c)) /\ ret[c].fail = n

\* C18: the queries of an Exists call went to filters 1, 2, .. in this order,
\* one each; none before the last found its bit unset or failed; the call
\* stopped short of filter k only at a query that did; a call whose last query
\* failed returned the error, and one whose last query found the bit unset
\* returned (false, nil).
C18_ExistsExitsEarly ==
    \A c \in Callers :
        (bind[c] # 0 /\ pc[c] = "returned" /\ ret[c].op = "Exists") =>
            LET q == ret[c].queries
                last == Len(q)
            IN  /\ last \in 1..K
                /\ \A n \in 1..last : q[n].filter = n /\ Filters(c)[n].multiplier = n
                /\ \A n \in 1..(last - 1) : ~FoundUnset(c, n) /\ ~QueryFailed(c, n)
                /\ last < K => (FoundUnset(c, last) \/ QueryFailed(c, last))
                /\ QueryFailed(c, last) => (ret[c].err = IOError /\ ~ret[c].exists)
                /\ (FoundUnset(c, last) /\ ~QueryFailed(c, last)) =>
                       (ret[c].err = Nil /\ ~ret[c].exists)

\* C18 witness: Exists returned (false, nil) after its query of the first
\* filter of a remote filter, the bit of the value in the second being set.
C18_Witness ==
    \E c \in Callers :
        /\ bind[c] # 0 /\ pc[c] = "returned" /\ ret[c].op = "Exists"
        /\ IsRemote(Filters(c)) /\ K > 1
        /\ Len(ret[c].queries) = 1 /\ ret[c].fail = 0
        /\ ~ret[c].exists /\ ret[c].err = Nil
        /\ ~FoundUnset(c, 2)

\* C19 (as claimed): no step resets a bit that is one for a value passed to a
\* filter before a Save of it that has completed: such a bit of a key stays
\* one, and the key stays, whatever the other process does.
C19_ConstructionKeepsFlushedBits ==
    [][\A i \in Insts :
           IsRemote(bf[i]) =>
               \A v \in flushed[i] : \A j \in DOMAIN bf[i] :
                   LET key == bf[i][j].storage.key
                       bit == IndexOf(bf[i][j], v)
                   IN  GetBit(redis, key, bit) = 1 => GetBit(redis', key, bit) = 1
      ]_vars

\* C20 (as claimed): a caller inside NewRedis holds at most one connection of
\* its pool, and when the pool allows one active connection the Get of init
\* returns.
C20_OneConnectionSuffices ==
    \A c \in Callers :
        Constructing(c) =>
            /\ held[c] <= 1
            /\ (cfg.maxActive = 1 /\ pc[c] = "init") => ENABLED StorageGet(c)

====
